---- MODULE Spec2Model ----
(***************************************************************************)
(* Model of the checkout backend in src/main.py: the pricing engine        *)
(* (calculate_shipping, round2, api_calculate_pricing) and the payment     *)
(* gateway adapter (paypal_get_access_token, create_order, capture_order). *)
(*                                                                         *)
(* A request handler is split into steps at its blocking outbound calls:   *)
(* everything a handler does between two outbound calls is one action.     *)
(* Strings are sequences of one-character strings, Python floats are       *)
(* IEEE-754 doubles held as exact fixed-point numbers.                     *)
(***************************************************************************)
EXTENDS Integers, Sequences, FiniteSets, TLC

None == "None"

(***************************************************************************)
(* Python float (IEEE-754 binary64).  Every double that occurs here is 0   *)
(* or lies in [2^-8, 2^10), so it is a multiple of 2^-60: a double is held *)
(* as the natural number x * 2^60, written as NLimbs little-endian limbs   *)
(* of LimbBits bits (TLC integers are 32 bits wide).                       *)
(***************************************************************************)
LimbBits == 10
Base == 2^LimbBits
FracLimbs == 6
NLimbs == 8
MantissaBits == 53

Limbs == 1..NLimbs

BigZero == [i \in Limbs |-> 0]

\* propagate carries from limb i upwards
RECURSIVE Carry(_, _, _)
Carry(a, i, c) ==
    IF i > NLimbs THEN a
    ELSE LET t == a[i] + c
         IN  Carry([a EXCEPT ![i] = t % Base], i + 1, t \div Base)

BigAdd(a, b) == Carry([i \in Limbs |-> a[i] + b[i]], 1, 0)

BigMulSmall(a, s) == Carry([i \in Limbs |-> a[i] * s], 1, 0)

\* the integer n * 2^(LimbBits * FracLimbs), i.e. the number n in fixed point
BigFromInt(n) == Carry([i \in Limbs |-> IF i = FracLimbs + 1 THEN n ELSE 0], 1, 0)

\* long division by a small divisor: <<quotient, remainder>>
RECURSIVE DivStep(_, _, _, _)
DivStep(a, d, i, r) ==
    IF i = 0 THEN <<a, r>>
    ELSE LET t == r * Base + a[i]
         IN  DivStep([a EXCEPT ![i] = t \div d], d, i - 1, t % d)

BigDivSmall(a, d) == DivStep(a, d, NLimbs, 0)

RECURSIVE SmallBits(_)
SmallBits(x) == IF x = 0 THEN 0 ELSE 1 + SmallBits(x \div 2)

RECURSIVE TopLimb(_, _)
TopLimb(a, i) == IF i = 0 THEN 0 ELSE IF a[i] # 0 THEN i ELSE TopLimb(a, i - 1)

BitLen(a) ==
    LET h == TopLimb(a, NLimbs)
    IN  IF h = 0 THEN 0 ELSE (h - 1) * LimbBits + SmallBits(a[h])

\* round an exact value to the nearest double, ties to even; sticky says
\* that the exact value is strictly above a (a division left a remainder)
RoundToDouble(a, sticky) ==
    LET k == BitLen(a) - MantissaBits
    IN  IF k <= 0 THEN a
        ELSE LET L    == a[1] + Base * a[2] + Base * Base * a[3]
                 p    == 2^k
                 lo   == L % p
                 odd  == (L \div p) % 2 = 1
                 half == p \div 2
                 up   == \/ lo > half
                         \/ lo = half /\ (sticky \/ odd)
                 newL == (L - lo) + (IF up THEN p ELSE 0)
             IN  Carry([a EXCEPT ![1] = newL, ![2] = 0, ![3] = 0], 1, 0)

\* float("d.cc"): the double nearest to c / 100
float_from_cents(c) ==
    IF c = 0 THEN BigZero
    ELSE LET d == BigDivSmall(BigFromInt(c), 100)
         IN  RoundToDouble(d[1], d[2] # 0)

\* x * n for a float x and an int n
float_mul_int(x, n) == RoundToDouble(BigMulSmall(x, n), FALSE)

\* x + y for floats
float_add(x, y) == RoundToDouble(BigAdd(x, y), FALSE)

\* f"{x:.2f}": the decimal with two fraction digits nearest to x, ties to
\* even, as its number of hundredths
format_2f(x) ==
    LET P      == BigMulSmall(x, 100)
        whole  == P[FracLimbs + 1] + Base * P[FracLimbs + 2]
        top    == P[FracLimbs]
        rest   == \E i \in 1..(FracLimbs - 1) : P[i] # 0
        up     == \/ top > Base \div 2
                  \/ top = Base \div 2 /\ (rest \/ whole % 2 = 1)
    IN  whole + (IF up THEN 1 ELSE 0)

\* a round2 that cuts the digits after the second instead of rounding
round2_truncate(x) ==
    LET P == BigMulSmall(x, 100)
    IN  float_from_cents(P[FracLimbs + 1] + Base * P[FracLimbs + 2])

round2(x) == float_from_cents(format_2f(x))

UNIT_PRICE == float_from_cents(2499)


(***************************************************************************)
(* Python str: a sequence of one-character strings.                        *)
(***************************************************************************)
Whitespace == {" ", "\t", "\n"}

ToLower ==
    ("A" :> "a") @@ ("B" :> "b") @@ ("C" :> "c") @@ ("D" :> "d") @@
    ("E" :> "e") @@ ("F" :> "f") @@ ("G" :> "g") @@ ("H" :> "h") @@
    ("I" :> "i") @@ ("J" :> "j") @@ ("K" :> "k") @@ ("L" :> "l") @@
    ("M" :> "m") @@ ("N" :> "n") @@ ("O" :> "o") @@ ("P" :> "p") @@
    ("Q" :> "q") @@ ("R" :> "r") @@ ("S" :> "s") @@ ("T" :> "t") @@
    ("U" :> "u") @@ ("V" :> "v") @@ ("W" :> "w") @@ ("X" :> "x") @@
    ("Y" :> "y") @@ ("Z" :> "z")

RECURSIVE lstrip(_)
lstrip(s) ==
    IF s # <<>> /\ Head(s) \in Whitespace THEN lstrip(Tail(s)) ELSE s

RECURSIVE rstrip(_)
rstrip(s) ==
    IF s # <<>> /\ s[Len(s)] \in Whitespace
    THEN rstrip(SubSeq(s, 1, Len(s) - 1))
    ELSE s

strip(s) == rstrip(lstrip(s))

lower(s) == [i \in 1..Len(s) |-> IF s[i] \in DOMAIN ToLower THEN ToLower[s[i]] ELSE s[i]]

upper(s) ==
    [i \in 1..Len(s) |->
        IF \E u \in DOMAIN ToLower : ToLower[u] = s[i]
        THEN CHOOSE u \in DOMAIN ToLower : ToLower[u] = s[i]
        ELSE s[i]]

(***************************************************************************)
(* Request models                                                          *)
(***************************************************************************)
MinQuantity == 1
MaxQuantity == 20

AddressFields == {"country", "city", "postal_code", "street"}

\* class Address: four required str fields (a JSON object is a record whose
\* domain is the set of keys present in the body)
Address(a) == AddressFields \subseteq DOMAIN a

\* a PricingRequest whose upper bound is off by one
PricingRequest_le21(p) ==
    /\ p.quantity >= MinQuantity
    /\ p.quantity <= MaxQuantity + 1
    /\ Address(p.address)

\* class PricingRequest: quantity: int, ge=1, le=20; address: Address
PricingRequest(p) ==
    /\ p.quantity >= MinQuantity
    /\ p.quantity <= MaxQuantity
    /\ Address(p.address)

\* class CreateOrderRequest(PricingRequest): pass
CreateOrderRequest(p) == PricingRequest(p)

\* class CaptureOrderRequest: order_id: str
CaptureOrderRequest(p) == "order_id" \in DOMAIN p

(***************************************************************************)
(* Pricing engine                                                          *)
(***************************************************************************)
\* an is_germany that forgets strip()
is_germany_nostrip(country) ==
    lower(country) \in
        { <<"g", "e", "r", "m", "a", "n", "y">>,
          <<"d", "e">>,
          <<"d", "e", "u", "t", "s", "c", "h", "l", "a", "n", "d">> }

is_germany(country) ==
    lower(strip(country)) \in
        { <<"g", "e", "r", "m", "a", "n", "y">>,
          <<"d", "e">>,
          <<"d", "e", "u", "t", "s", "c", "h", "l", "a", "n", "d">> }

eu_countries ==
    { <<"a", "u", "s", "t", "r", "i", "a">>,
      <<"b", "e", "l", "g", "i", "u", "m">>,
      <<"b", "u", "l", "g", "a", "r", "i", "a">>,
      <<"c", "r", "o", "a", "t", "i", "a">>,
      <<"c", "y", "p", "r", "u", "s">>,
      <<"c", "z", "e", "c", "h", "i", "a">>,
      <<"c", "z", "e", "c", "h", " ", "r", "e", "p", "u", "b", "l", "i", "c">>,
      <<"d", "e", "n", "m", "a", "r", "k">>,
      <<"e", "s", "t", "o", "n", "i", "a">>,
      <<"f", "i", "n", "l", "a", "n", "d">>,
      <<"f", "r", "a", "n", "c", "e">>,
      <<"g", "e", "r", "m", "a", "n", "y">>,
      <<"g", "r", "e", "e", "c", "e">>,
      <<"h", "u", "n", "g", "a", "r", "y">>,
      <<"i", "r", "e", "l", "a", "n", "d">>,
      <<"i", "t", "a", "l", "y">>,
      <<"l", "a", "t", "v", "i", "a">>,
      <<"l", "i", "t", "h", "u", "a", "n", "i", "a">>,
      <<"l", "u", "x", "e", "m", "b", "o", "u", "r", "g">>,
      <<"m", "a", "l", "t", "a">>,
      <<"n", "e", "t", "h", "e", "r", "l", "a", "n", "d", "s">>,
      <<"p", "o", "l", "a", "n", "d">>,
      <<"p", "o", "r", "t", "u", "g", "a", "l">>,
      <<"r", "o", "m", "a", "n", "i", "a">>,
      <<"s", "l", "o", "v", "a", "k", "i", "a">>,
      <<"s", "l", "o", "v", "e", "n", "i", "a">>,
      <<"s", "p", "a", "i", "n">>,
      <<"s", "w", "e", "d", "e", "n">> }

is_eu_country(country) == lower(strip(country)) \in eu_countries

\* a calculate_shipping that tests the EU set before the domestic one
calculate_shipping_eu_first(quantity, address) ==
    IF lower(strip(address.country)) \in eu_countries
    THEN IF quantity = 3
         THEN <<float_from_cents(0), "EU (non-DE): Free shipping for exactly 3 bottles">>
         ELSE <<float_from_cents(1499), "EU (non-DE): €14.99 shipping">>
    ELSE IF lower(strip(address.country)) \in { <<"d", "e">>,
                 <<"d", "e", "u", "t", "s", "c", "h", "l", "a", "n", "d">> }
         THEN IF lower(strip(address.city)) = <<"b", "e", "r", "l", "i", "n">>
              THEN <<float_from_cents(0), "Berlin: Free same-day delivery">>
              ELSE IF quantity = 2
                   THEN <<float_from_cents(0), "Germany (non-Berlin): Free shipping for exactly 2 bottles">>
                   ELSE <<float_from_cents(799), "Germany (non-Berlin): €7.99 shipping">>
         ELSE IF quantity = 5
              THEN <<float_from_cents(0), "International: Free shipping for exactly 5 bottles">>
              ELSE <<float_from_cents(1999), "International: €19.99 shipping">>

\* returns <<cost, rule>>
calculate_shipping(quantity, address) ==
    IF is_germany(address.country)
    THEN IF lower(strip(address.city)) = <<"b", "e", "r", "l", "i", "n">>
         THEN <<float_from_cents(0), "Berlin: Free same-day delivery">>
         ELSE IF quantity = 2
              THEN <<float_from_cents(0), "Germany (non-Berlin): Free shipping for exactly 2 bottles">>
              ELSE <<float_from_cents(799), "Germany (non-Berlin): €7.99 shipping">>
    ELSE IF is_eu_country(address.country) /\ ~is_germany(address.country)
         THEN IF quantity = 3
              THEN <<float_from_cents(0), "EU (non-DE): Free shipping for exactly 3 bottles">>
              ELSE <<float_from_cents(1499), "EU (non-DE): €14.99 shipping">>
         ELSE IF quantity = 5
              THEN <<float_from_cents(0), "International: Free shipping for exactly 5 bottles">>
              ELSE <<float_from_cents(1999), "International: €19.99 shipping">>

\* the PricingResponse built from a PricingRequest
api_calculate_pricing(payload) ==
    LET shipping      == calculate_shipping(payload.quantity, payload.address)
        shipping_cost == shipping[1]
        rule          == shipping[2]
        subtotal      == float_mul_int(UNIT_PRICE, payload.quantity)
        total         == float_add(subtotal, shipping_cost)
    IN  [ product_price |-> round2(UNIT_PRICE),
          quantity      |-> payload.quantity,
          subtotal      |-> round2(subtotal),
          shipping_cost |-> round2(shipping_cost),
          total         |-> round2(total),
          shipping_rule |-> rule ]

(***************************************************************************)
(* State                                                                   *)
(***************************************************************************)
VARIABLES
    creds,      \* PAYPAL_CLIENT_ID and PAYPAL_SECRET, read once at import
    req,        \* per request: its endpoint, body, position and locals
    outbound,   \* per request: the calls sent to the provider, in order
    inbound,    \* per request: what the provider answered, in order
    response    \* per request: the responses sent to the caller

vars == <<creds, req, outbound, inbound, response>>

\* number of requests in flight at once
MaxReq == 2

Idle == [pc |-> "idle", kind |-> "none", payload |-> <<>>,
         shipping |-> <<>>, pricing |-> <<>>, access_token |-> None]

\* os.getenv gives None for an unset variable, "" for an empty one
CredConfigs ==
    [PAYPAL_CLIENT_ID : {None, "", "client-id"}, PAYPAL_SECRET : {None, "", "secret"}]

InitSlots(S) ==
    /\ creds \in CredConfigs
    /\ req = [r \in S |-> Idle]
    /\ outbound = [r \in S |-> <<>>]
    /\ inbound = [r \in S |-> <<>>]
    /\ response = [r \in S |-> <<>>]

(***************************************************************************)
(* Responses to the caller                                                 *)
(***************************************************************************)
\* the framework's answer to a body that fails its model
ValidationError == [status_code |-> 422, body |-> [detail |-> "validation error"]]

\* raise HTTPException(status_code=500, detail=...)
HTTPException(detail) == [status_code |-> 500, body |-> [detail |-> detail]]

\* the framework's answer to an exception the handler does not catch
InternalServerError == [status_code |-> 500, body |-> [detail |-> "Internal Server Error"]]

Ok(body) == [status_code |-> 200, body |-> body]

\* the handler of request r ends with response resp
Finish(r, resp) ==
    /\ response' = [response EXCEPT ![r] = Append(@, resp)]

(***************************************************************************)
(* Provider                                                                *)
(***************************************************************************)
\* requests.post raised (timeout, connection error) instead of returning
Timeout == [raised |-> TRUE, status_code |-> 0, body |-> [json |-> FALSE, access_token |-> None, id |-> None]]

NotJson == [json |-> FALSE, access_token |-> None, id |-> None]

JsonObj(access_token, id) == [json |-> TRUE, access_token |-> access_token, id |-> id]

Reply(status_code, body) == [raised |-> FALSE, status_code |-> status_code, body |-> body]

\* if resp.status_code >= 400
is_error_status(resp) == resp.status_code >= 400

(***************************************************************************)
(* Outbound calls                                                          *)
(***************************************************************************)
TokenRequest ==
    [url |-> <<"/v1/oauth2/token">>,
     auth |-> <<creds.PAYPAL_CLIENT_ID, creds.PAYPAL_SECRET>>,
     grant_type |-> "client_credentials",
     timeout |-> 15]

\* country[:2]
prefix2(s) == SubSeq(s, 1, IF Len(s) < 2 THEN Len(s) ELSE 2)

order_body(payload, pricing) ==
    [intent |-> "CAPTURE",
     reference_id |-> "TESTOSTERONE-BOOSTER",
     currency_code |-> "EUR",
     value |-> format_2f(pricing.total),
     item_total |-> format_2f(pricing.subtotal),
     shipping |-> format_2f(pricing.shipping_cost),
     quantity |-> pricing.quantity,
     unit_amount |-> format_2f(UNIT_PRICE),
     address |-> [address_line_1 |-> payload.address.street,
                  admin_area_2 |-> payload.address.city,
                  postal_code |-> payload.address.postal_code,
                  country_code |-> upper(prefix2(payload.address.country))],
     shipping_preference |-> "SET_PROVIDED_ADDRESS",
     user_action |-> "PAY_NOW"]

\* the call a create_order handler with locals loc sends
OrderRequest(loc, access_token) ==
    [url |-> <<"/v2/checkout/orders">>,
     bearer |-> access_token,
     json |-> order_body(loc.payload, loc.pricing[1]),
     timeout |-> 20]

\* the call a capture_order handler with locals loc sends
CaptureRequest(loc, access_token) ==
    [url |-> <<"/v2/checkout/orders/", loc.payload.order_id, "/capture">>,
     bearer |-> access_token,
     timeout |-> 20]

(***************************************************************************)
(* POST /api/calculate-pricing                                             *)
(***************************************************************************)
calculate_pricing_request(r, payload) ==
    /\ req[r].pc = "idle"
    /\ IF ~PricingRequest(payload)
       THEN /\ req' = [req EXCEPT ![r] = [Idle EXCEPT !.pc = "done", !.kind = "pricing",
                                                      !.payload = payload]]
            /\ Finish(r, ValidationError)
       ELSE /\ req' = [req EXCEPT ![r] =
                         [Idle EXCEPT !.pc = "done", !.kind = "pricing", !.payload = payload,
                                      !.shipping = <<calculate_shipping(payload.quantity, payload.address)>>,
                                      !.pricing = <<api_calculate_pricing(payload)>>]]
            /\ Finish(r, Ok(api_calculate_pricing(payload)))
    /\ UNCHANGED <<creds, outbound, inbound>>

(***************************************************************************)
(* paypal_get_access_token, up to its outbound call                        *)
(***************************************************************************)
\* a credentials check that needs both to be missing
credentials_missing_both ==
    /\ creds.PAYPAL_CLIENT_ID \in {None, ""}
    /\ creds.PAYPAL_SECRET \in {None, ""}

\* if not PAYPAL_CLIENT_ID or not PAYPAL_SECRET
credentials_missing ==
    \/ creds.PAYPAL_CLIENT_ID \in {None, ""}
    \/ creds.PAYPAL_SECRET \in {None, ""}

\* a paypal_get_access_token that keeps the last token in a module-level
\* cache and skips the exchange when another request has filled it
paypal_get_access_token_cached(r, loc) ==
    IF credentials_missing
    THEN /\ req' = [req EXCEPT ![r] = [loc EXCEPT !.pc = "done"]]
         /\ Finish(r, HTTPException("PayPal credentials not configured on server"))
         /\ UNCHANGED outbound
    ELSE IF \E s \in DOMAIN req : req[s].access_token # None
    THEN LET tok == req[CHOOSE s \in DOMAIN req : req[s].access_token # None].access_token
         IN  /\ req' = [req EXCEPT ![r] = [loc EXCEPT !.pc = "order", !.access_token = tok]]
             /\ outbound' = [outbound EXCEPT ![r] =
                   Append(@, IF loc.kind = "create" THEN OrderRequest(loc, tok)
                                                    ELSE CaptureRequest(loc, tok))]
             /\ UNCHANGED response
    ELSE /\ req' = [req EXCEPT ![r] = [loc EXCEPT !.pc = "token"]]
         /\ outbound' = [outbound EXCEPT ![r] = Append(@, TokenRequest)]
         /\ UNCHANGED response

\* request r, whose locals are now loc, calls paypal_get_access_token()
paypal_get_access_token(r, loc) ==
    IF credentials_missing
    THEN /\ req' = [req EXCEPT ![r] = [loc EXCEPT !.pc = "done"]]
         /\ Finish(r, HTTPException("PayPal credentials not configured on server"))
         /\ UNCHANGED outbound
    ELSE /\ req' = [req EXCEPT ![r] = [loc EXCEPT !.pc = "token"]]
         /\ outbound' = [outbound EXCEPT ![r] = Append(@, TokenRequest)]
         /\ UNCHANGED response

(***************************************************************************)
(* POST /api/checkout/create-order                                         *)
(***************************************************************************)
create_order_request(r, payload) ==
    /\ req[r].pc = "idle"
    /\ IF ~CreateOrderRequest(payload)
       THEN /\ req' = [req EXCEPT ![r] = [Idle EXCEPT !.pc = "done", !.kind = "create",
                                                      !.payload = payload]]
            /\ Finish(r, ValidationError)
            /\ UNCHANGED outbound
       ELSE paypal_get_access_token(r,
                [Idle EXCEPT !.kind = "create", !.payload = payload,
                             !.shipping = <<calculate_shipping(payload.quantity, payload.address)>>,
                             !.pricing = <<api_calculate_pricing(payload)>>])
    /\ UNCHANGED <<creds, inbound>>

(***************************************************************************)
(* POST /api/checkout/capture-order                                        *)
(***************************************************************************)
capture_order_request(r, payload) ==
    /\ req[r].pc = "idle"
    /\ IF ~CaptureOrderRequest(payload)
       THEN /\ req' = [req EXCEPT ![r] = [Idle EXCEPT !.pc = "done", !.kind = "capture",
                                                      !.payload = payload]]
            /\ Finish(r, ValidationError)
            /\ UNCHANGED outbound
       ELSE paypal_get_access_token(r, [Idle EXCEPT !.kind = "capture", !.payload = payload])
    /\ UNCHANGED <<creds, inbound>>

(***************************************************************************)
(* The token exchange returns: the rest of paypal_get_access_token and the *)
(* handler up to its order call                                            *)
(***************************************************************************)
token_reply(r, resp) ==
    /\ req[r].pc = "token"
    /\ inbound' = [inbound EXCEPT ![r] = Append(@, resp)]
    /\ IF resp.raised
       THEN /\ req' = [req EXCEPT ![r].pc = "done"]
            /\ Finish(r, InternalServerError)
            /\ UNCHANGED outbound
       ELSE IF is_error_status(resp)
       THEN /\ req' = [req EXCEPT ![r].pc = "done"]
            /\ Finish(r, HTTPException("PayPal auth failed"))
            /\ UNCHANGED outbound
       ELSE IF ~resp.body.json \/ resp.body.access_token = None
       THEN \* resp.json()["access_token"] raises
            /\ req' = [req EXCEPT ![r].pc = "done"]
            /\ Finish(r, InternalServerError)
            /\ UNCHANGED outbound
       ELSE /\ req' = [req EXCEPT ![r].pc = "order",
                                  ![r].access_token = resp.body.access_token]
            /\ outbound' = [outbound EXCEPT ![r] =
                  Append(@, IF req[r].kind = "create"
                            THEN OrderRequest(req[r], resp.body.access_token)
                            ELSE CaptureRequest(req[r], resp.body.access_token))]
            /\ UNCHANGED response
    /\ UNCHANGED creds

(***************************************************************************)
(* The order-creation call returns: the rest of create_order               *)
(***************************************************************************)
create_order_reply(r, resp) ==
    /\ req[r].pc = "order"
    /\ req[r].kind = "create"
    /\ inbound' = [inbound EXCEPT ![r] = Append(@, resp)]
    /\ req' = [req EXCEPT ![r].pc = "done"]
    /\ IF resp.raised
       THEN Finish(r, InternalServerError)
       ELSE IF is_error_status(resp)
       THEN Finish(r, HTTPException("PayPal order creation failed"))
       ELSE IF ~resp.body.json \/ resp.body.id = None
       THEN \* resp.json() raises, or order_id=None fails CreateOrderResponse
            Finish(r, InternalServerError)
       ELSE Finish(r, Ok([order_id |-> resp.body.id, total |-> req[r].pricing[1].total]))
    /\ UNCHANGED <<creds, outbound>>

(***************************************************************************)
(* The capture call returns: the rest of capture_order                     *)
(***************************************************************************)
capture_order_reply(r, resp) ==
    /\ req[r].pc = "order"
    /\ req[r].kind = "capture"
    /\ inbound' = [inbound EXCEPT ![r] = Append(@, resp)]
    /\ req' = [req EXCEPT ![r].pc = "done"]
    /\ IF resp.raised
       THEN Finish(r, InternalServerError)
       ELSE IF is_error_status(resp)
       THEN Finish(r, HTTPException("PayPal capture failed"))
       ELSE IF ~resp.body.json
       THEN Finish(r, InternalServerError)
       ELSE Finish(r, Ok(resp.body))
    /\ UNCHANGED <<creds, outbound>>

(***************************************************************************)
(* Inputs                                                                  *)
(***************************************************************************)
Countries ==
    { <<"G", "e", "r", "m", "a", "n", "y">>,
      <<" ", "g", "e", "r", "m", "a", "n", "y", " ">>,
      <<"G", "E", "R", "M", "A", "N", "Y">>,
      <<"D", "e", "u", "t", "s", "c", "h", "l", "a", "n", "d">>,
      <<"D", "E">>,
      <<"F", "r", "a", "n", "c", "e">>,
      <<"\t", "F", "R", "A", "N", "C", "E", " ">>,
      <<"C", "z", "e", "c", "h", " ", "R", "e", "p", "u", "b", "l", "i", "c">>,
      <<"B", "r", "a", "z", "i", "l">>,
      <<"G", "e", "r", " ", "m", "a", "n", "y">>,
      <<>> }

Cities ==
    { <<"B", "e", "r", "l", "i", "n">>,
      <<" ", "B", "E", "R", "L", "I", "N">>,
      <<"M", "u", "n", "i", "c", "h">>,
      <<>> }

Munich == <<"M", "u", "n", "i", "c", "h">>
France == <<"F", "r", "a", "n", "c", "e">>

\* complete addresses, some with empty strings
FullAddresses ==
    [country : Countries, city : Cities, postal_code : {"10115"}, street : {"Hauptstr 1"}]
    \cup [country : {France}, city : {Munich}, postal_code : {"", "10115"}, street : {"", "Hauptstr 1"}]

\* addresses with one key missing from the body
PartialAddresses ==
    { [city |-> Munich, postal_code |-> "10115", street |-> "Hauptstr 1"],
      [country |-> France, postal_code |-> "10115", street |-> "Hauptstr 1"],
      [country |-> France, city |-> Munich, street |-> "Hauptstr 1"],
      [country |-> France, city |-> Munich, postal_code |-> "10115"] }

Quantities == (MinQuantity - 1)..(MaxQuantity + 1)

Payloads == [quantity : Quantities, address : FullAddresses \cup PartialAddresses]

CapturePayloads == { [order_id |-> "A"], [order_id |-> "B"], [orderId |-> "A"] }

Bodies == { NotJson, JsonObj(None, None), JsonObj("T1", "A") }

Replies == { Reply(st, b) : st \in {200, 304, 401, 500}, b \in Bodies } \cup { Timeout }

\* the few inputs of the concurrent specification
FewPayloads ==
    { [quantity |-> 2, address |-> [country |-> France, city |-> Munich,
                                    postal_code |-> "10115", street |-> "Hauptstr 1"]],
      [quantity |-> 0, address |-> [country |-> France, city |-> Munich,
                                    postal_code |-> "10115", street |-> "Hauptstr 1"]] }

FewCapturePayloads == { [order_id |-> "A"], [order_id |-> "B"] }

FewReplies == { Reply(200, JsonObj("T1", "A")), Reply(401, NotJson), Timeout }

(***************************************************************************)
(* Specifications                                                          *)
(***************************************************************************)
Step(P, C, R) ==
    \/ \E r \in DOMAIN req : /\ req[r].pc = "idle"
                             /\ \E payload \in P : calculate_pricing_request(r, payload)
    \/ \E r \in DOMAIN req : /\ req[r].pc = "idle"
                             /\ \E payload \in P : create_order_request(r, payload)
    \/ \E r \in DOMAIN req : /\ req[r].pc = "idle"
                             /\ \E payload \in C : capture_order_request(r, payload)
    \/ \E r \in DOMAIN req : /\ req[r].pc = "token"
                             /\ \E resp \in R : token_reply(r, resp)
    \/ \E r \in DOMAIN req : /\ req[r].pc = "order"
                             /\ \E resp \in R : create_order_reply(r, resp)
    \/ \E r \in DOMAIN req : /\ req[r].pc = "order"
                             /\ \E resp \in R : capture_order_reply(r, resp)

\* one request, every input
Init == InitSlots({1})
Next == Step(Payloads, CapturePayloads, Replies)
Spec == Init /\ [][Next]_vars

\* MaxReq concurrent requests, few inputs
InitConc == InitSlots(1..MaxReq)
NextConc == Step(FewPayloads, FewCapturePayloads, FewReplies)
SpecConc == InitConc /\ [][NextConc]_vars

(***************************************************************************)
(* Properties                                                              *)
(***************************************************************************)
Slots == DOMAIN req

Done(r) == req[r].pc = "done"

\* the request ended and the caller got exactly resp
Answered(r, resp) == Done(r) /\ response[r] = <<resp>>

StatusOf(r) == response[r][1].status_code

Is2xx(resp) == ~resp.raised /\ resp.status_code >= 200 /\ resp.status_code < 300

Norm(str) == lower(strip(str))

DomesticNames ==
    { <<"g", "e", "r", "m", "a", "n", "y">>,
      <<"d", "e">>,
      <<"d", "e", "u", "t", "s", "c", "h", "l", "a", "n", "d">> }

CapitalName == <<"b", "e", "r", "l", "i", "n">>

RegionalNames == eu_countries \ DomesticNames

\* the branches of the shipping table, as conditions on the address
BranchApplies(b, address) ==
    LET dom == Norm(address.country) \in DomesticNames
        reg == Norm(address.country) \in RegionalNames
        cap == Norm(address.city) = CapitalName
    IN  CASE b = "capital"       -> dom /\ cap
          [] b = "domestic"      -> dom /\ ~cap
          [] b = "regional"      -> reg
          [] b = "international" -> ~dom /\ ~reg

Branches == {"capital", "domestic", "regional", "international"}

\* the table: cost in cents and rule description of branch b for a quantity
TableEntry(b, quantity) ==
    CASE b = "capital" -> <<0, "Berlin: Free same-day delivery">>
      [] b = "domestic" ->
            IF quantity = 2
            THEN <<0, "Germany (non-Berlin): Free shipping for exactly 2 bottles">>
            ELSE <<799, "Germany (non-Berlin): €7.99 shipping">>
      [] b = "regional" ->
            IF quantity = 3
            THEN <<0, "EU (non-DE): Free shipping for exactly 3 bottles">>
            ELSE <<1499, "EU (non-DE): €14.99 shipping">>
      [] b = "international" ->
            IF quantity = 5
            THEN <<0, "International: Free shipping for exactly 5 bottles">>
            ELSE <<1999, "International: €19.99 shipping">>

\* C1: whenever calculate_shipping has run for a request, exactly one branch
\* of the table applies to the address, and the cost and the rule it returned
\* are that branch's entry for the quantity.
C1_ShippingTable ==
    \A r \in Slots :
        req[r].shipping # <<>> =>
            LET q  == req[r].payload.quantity
                a  == req[r].payload.address
                bs == {b \in Branches : BranchApplies(b, a)}
            IN  /\ Cardinality(bs) = 1
                /\ \A b \in bs :
                      /\ req[r].shipping[1][1] = float_from_cents(TableEntry(b, q)[1])
                      /\ req[r].shipping[1][2] = TableEntry(b, q)[2]

\* a regional country written with whitespace and capitals, 3 units: free
C1_Witness ==
    \E r \in Slots :
        /\ req[r].shipping # <<>>
        /\ req[r].payload.quantity = 3
        /\ req[r].payload.address.country = <<"\t", "F", "R", "A", "N", "C", "E", " ">>
        /\ req[r].shipping[1] = <<BigZero, "EU (non-DE): Free shipping for exactly 3 bottles">>

\* C2: the PricingResponse of a request of quantity q carries q, the unit
\* price 24.99, and three amounts that are exact hundredths: the subtotal is
\* 2499 * q cents, the shipping cost is the cost calculate_shipping returned,
\* and the total is the subtotal plus the shipping cost, to the cent.
C2_PricingExact ==
    \A r \in Slots :
        req[r].pricing # <<>> =>
            LET p  == req[r].pricing[1]
                q  == req[r].payload.quantity
                sc == format_2f(p.subtotal)
                hc == format_2f(p.shipping_cost)
                tc == format_2f(p.total)
            IN  /\ p.quantity = q
                /\ p.product_price = float_from_cents(2499)
                /\ p.subtotal = float_from_cents(sc)
                /\ p.shipping_cost = float_from_cents(hc)
                /\ p.total = float_from_cents(tc)
                /\ sc = 2499 * q
                /\ hc = format_2f(req[r].shipping[1][1])
                /\ tc = sc + hc
                /\ (req[r].kind = "pricing" => Answered(r, Ok(p)))

\* country "DE", city "Munich", quantity 1: shipping 7.99, total 32.98
C2_Witness ==
    \E r \in Slots :
        /\ req[r].kind = "pricing"
        /\ Done(r)
        /\ StatusOf(r) = 200
        /\ req[r].payload.quantity = 1
        /\ req[r].payload.address.country = <<"D", "E">>
        /\ req[r].payload.address.city = Munich
        /\ response[r][1].body.shipping_cost = float_from_cents(799)
        /\ response[r][1].body.total = float_from_cents(3298)

\* C3: a calculate-pricing or create-order request whose quantity is outside
\* 1..20 ends with 422; the pricing logic has not run for it and no call has
\* been sent to the provider.
C3_QuantityRejected ==
    \A r \in Slots :
        (/\ req[r].kind \in {"pricing", "create"}
         /\ req[r].payload.quantity \notin 1..20)
        => /\ Answered(r, ValidationError)
           /\ req[r].shipping = <<>>
           /\ req[r].pricing = <<>>
           /\ outbound[r] = <<>>

\* create-order with quantity 21, credentials configured
C3_Witness ==
    \E r \in Slots :
        /\ req[r].kind = "create"
        /\ req[r].payload.quantity = 21
        /\ ~credentials_missing
        /\ Answered(r, ValidationError)

\* C4: a request whose token exchange returned a status outside 200..299
\* sends nothing after the token request and ends with 500.
C4_NonOkTokenStopsRequest ==
    \A r \in Slots :
        (/\ Len(inbound[r]) >= 1
         /\ ~inbound[r][1].raised
         /\ ~Is2xx(inbound[r][1]))
        => /\ Len(outbound[r]) = 1
           /\ Done(r)
           /\ StatusOf(r) = 500

CredsAbsent ==
    \/ creds.PAYPAL_CLIENT_ID \in {None, ""}
    \/ creds.PAYPAL_SECRET \in {None, ""}

ConfigurationError == HTTPException("PayPal credentials not configured on server")

\* C5 as stated: with the client id or the secret absent, every create-order
\* and capture-order request ends with 500 and nothing is sent to the provider.
C5_AbsentCredsAlways500 ==
    CredsAbsent =>
        \A r \in Slots :
            req[r].kind \in {"create", "capture"} =>
                /\ Done(r)
                /\ StatusOf(r) = 500
                /\ outbound[r] = <<>>

\* C5 (amended): with the client id or the secret absent, no request sends
\* anything to the provider, and every create-order and capture-order request
\* whose body passes its schema ends with the 500 of the credentials check (a
\* body that fails its schema ends with 422).
C5_AbsentCredsNoOutbound ==
    CredsAbsent =>
        \A r \in Slots :
            /\ outbound[r] = <<>>
            /\ req[r].kind = "create" =>
                  IF req[r].payload.quantity \in 1..20
                     /\ AddressFields \subseteq DOMAIN req[r].payload.address
                  THEN Answered(r, ConfigurationError)
                  ELSE Answered(r, ValidationError)
            /\ req[r].kind = "capture" =>
                  IF "order_id" \in DOMAIN req[r].payload
                  THEN Answered(r, ConfigurationError)
                  ELSE Answered(r, ValidationError)

\* client id set, secret empty: a valid create-order ends with the 500
C5_Witness ==
    \E r \in Slots :
        /\ creds = [PAYPAL_CLIENT_ID |-> "client-id", PAYPAL_SECRET |-> ""]
        /\ req[r].kind = "create"
        /\ req[r].payload.quantity = 2
        /\ Answered(r, ConfigurationError)

\* C6: after a token exchange answered with 2xx, a create-order or
\* capture-order request answers 200 only if the order call was answered with
\* 2xx, a 200 carries {order_id, total} resp. the provider's body, and every
\* answer outside 200..299 to the order call gives the 500 of that stage.
C6_OrderStageStatus ==
    \A r \in Slots :
        (Len(inbound[r]) = 2 /\ Is2xx(inbound[r][1])) =>
            LET o == inbound[r][2]
            IN  /\ Done(r)
                /\ StatusOf(r) = 200 => Is2xx(o)
                /\ (StatusOf(r) = 200 /\ req[r].kind = "create") =>
                      response[r][1].body =
                          [order_id |-> o.body.id, total |-> req[r].pricing[1].total]
                /\ (StatusOf(r) = 200 /\ req[r].kind = "capture") =>
                      response[r][1].body = o.body
                /\ (~o.raised /\ ~Is2xx(o)) =>
                      Answered(r, HTTPException(IF req[r].kind = "create"
                                                THEN "PayPal order creation failed"
                                                ELSE "PayPal capture failed"))

AddressDefective(a) ==
    \/ ~(AddressFields \subseteq DOMAIN a)
    \/ a.country = <<>>
    \/ a.city = <<>>
    \/ a.postal_code = ""
    \/ a.street = ""

\* C7: a calculate-pricing or create-order request whose address has an
\* empty or missing field ends with 422, without pricing and without any call
\* to the provider.
C7_DefectiveAddressRejected ==
    \A r \in Slots :
        (/\ req[r].kind \in {"pricing", "create"}
         /\ AddressDefective(req[r].payload.address))
        => /\ Answered(r, ValidationError)
           /\ req[r].shipping = <<>>
           /\ req[r].pricing = <<>>
           /\ outbound[r] = <<>>

NamedDomestic ==
    { <<" ", "g", "e", "r", "m", "a", "n", "y", " ">>,
      <<"G", "E", "R", "M", "A", "N", "Y">>,
      <<"D", "e", "u", "t", "s", "c", "h", "l", "a", "n", "d">>,
      <<"D", "E">> }

\* C8: the cost and rule calculate_shipping returned for a request are what
\* it returns, for the same quantity, for every address whose country and
\* city are the same after strip and lower; and for the countries " germany ",
\* "GERMANY", "Deutschland" and "DE" the rule is one of the domestic branch.
C8_CaseWhitespaceInvariant ==
    \A r \in Slots :
        req[r].shipping # <<>> =>
            LET q == req[r].payload.quantity
                a == req[r].payload.address
            IN  /\ \A b \in FullAddresses :
                      (Norm(b.country) = Norm(a.country) /\ Norm(b.city) = Norm(a.city))
                      => calculate_shipping(q, b) = req[r].shipping[1]
                /\ a.country \in NamedDomestic =>
                      req[r].shipping[1][2] \in
                          {TableEntry("capital", q)[2], TableEntry("domestic", q)[2]}

\* " germany " / " BERLIN" takes the capital branch
C8_Witness ==
    \E r \in Slots :
        /\ req[r].shipping # <<>>
        /\ req[r].payload.address.country = <<" ", "g", "e", "r", "m", "a", "n", "y", " ">>
        /\ req[r].payload.address.city = <<" ", "B", "E", "R", "L", "I", "N">>
        /\ req[r].shipping[1][2] = "Berlin: Free same-day delivery"

TokenUrl == <<"/v1/oauth2/token">>

UpstreamFailure(resp) == resp.raised \/ ~Is2xx(resp)

\* C9: a request sends at most one token request and then at most one order
\* request, in this order, and a failed answer (exception or status outside
\* 200..299) to its k-th call leaves it with k calls sent and a 500.
C9_NoRetry ==
    \A r \in Slots :
        /\ Len(outbound[r]) <= 2
        /\ Len(outbound[r]) >= 1 => outbound[r][1].url = TokenUrl
        /\ Len(outbound[r]) = 2 => outbound[r][2].url # TokenUrl
        /\ \A k \in 1..Len(inbound[r]) :
              UpstreamFailure(inbound[r][k]) =>
                  /\ Len(outbound[r]) = k
                  /\ Done(r)
                  /\ StatusOf(r) = 500

\* C10: what a request has done is a function of its endpoint, its body and
\* the provider's answers to its own calls, whatever the other requests do;
\* a capture-order request with an order_id and configured credentials
\* starts with its own token exchange and sends the capture call for its
\* order_id with the token of that exchange, without any local condition on
\* the id.
C10_Stateless ==
    /\ \A r1, r2 \in Slots :
          (/\ req[r1].kind # "none"
           /\ req[r1].kind = req[r2].kind
           /\ req[r1].payload = req[r2].payload
           /\ inbound[r1] = inbound[r2])
          => /\ req[r1] = req[r2]
             /\ outbound[r1] = outbound[r2]
             /\ response[r1] = response[r2]
    /\ \A r \in Slots :
          (req[r].kind = "capture" /\ "order_id" \in DOMAIN req[r].payload /\ ~CredsAbsent)
          => /\ Len(outbound[r]) >= 1
             /\ outbound[r][1].url = TokenUrl
             /\ Len(outbound[r]) >= 2 =>
                   /\ Len(outbound[r]) = 2
                   /\ Len(inbound[r]) >= 1
                   /\ outbound[r][2].url =
                         <<"/v2/checkout/orders/", req[r].payload.order_id, "/capture">>
                   /\ outbound[r][2].bearer = inbound[r][1].body.access_token

\* a capture of order "B" answered 200 while another request is in flight,
\* and no create-order of this system ever returned "B"
C10_Witness ==
    \E r1, r2 \in Slots :
        /\ r1 # r2
        /\ req[r1].kind = "capture"
        /\ req[r1].payload.order_id = "B"
        /\ Done(r1)
        /\ StatusOf(r1) = 200
        /\ req[r2].pc \in {"token", "order"}
        /\ \A s \in Slots :
              (req[s].kind = "create" /\ Done(s) /\ StatusOf(s) = 200)
              => response[s][1].body.order_id # "B"

====
